---------------------------- MODULE Spec2Model ----------------------------
(***************************************************************************)
(* A model of the block-based image compressor of src/lib/ImageDeepCABAC.ts *)
(* (class ImageDeepCABAC): constructor, loadImage, createImageBlocks,       *)
(* quantizeBlock, the in-pipeline colour conversion, compressBlocks,        *)
(* compressBlock, getBlockContext and getProbability.                       *)
(*                                                                         *)
(* Tensors are float32 (an int32 tensor divided by a number is upcast to    *)
(* float32); every elementwise kernel computes one correctly rounded        *)
(* float32 operation.  A float32 value is the triple <<s, m, e>> standing   *)
(* for s * m * 2^e with s in {1, -1} and either m = 0 (zero, written        *)
(* <<1, 0, 0>>) or 2^23 <= m < 2^24.  The values the pipeline produces are  *)
(* far from the subnormal and overflow ranges, which are not modelled.      *)
(* The coder's low and high are rationals <<n, d>> in lowest terms.         *)
(***************************************************************************)
EXTENDS Integers, Sequences, FiniteSets

VARIABLES
    given,      \* the options object handed to the constructor
    options,    \* this.options
    contexts,   \* this.contexts: key -> frequency
    call,       \* the compress call in progress or last settled
    other,      \* a second compress call on the same instance, in flight
                \* between the awaits of the first
    completed,  \* the number of compress calls settled so far
    probe       \* inputs and result of one application of a pure method

vars == <<given, options, contexts, call, other, completed, probe>>

-----------------------------------------------------------------------------
(* float32 arithmetic *)

P22 == 2^22
P23 == 2^23
P24 == 2^24

F32Zero == <<1, 0, 0>>

Abs(i) == IF i < 0 THEN -i ELSE i

\* TRUE, once v has its value.  TLC evaluates a definition or an argument
\* where it is first used, inside the evaluation that uses it; a conjunct
\* Evaluated(v) ahead of that use keeps long computations from nesting.
Evaluated(v) == v = v

\* the number of bits of n, 0 < n < 2^30
BitLen(n) == CHOOSE k \in 1..30 : 2^(k - 1) <= n /\ n < 2^k

\* s * (n + t) * 2^e rounded to nearest, ties to even; 0 <= t < 1, and t > 0
\* iff sticky.  Callers pass n >= 2^24 whenever sticky.
F32Round(s, n, e, sticky) ==
    IF n = 0 THEN F32Zero
    ELSE LET bl == BitLen(n) IN
         IF bl <= 24 THEN <<s, n * 2^(24 - bl), e - (24 - bl)>>
         ELSE LET k    == bl - 24
                  q    == n \div 2^k
                  r    == n % 2^k
                  half == 2^(k - 1)
                  up   == r > half \/ (r = half /\ (sticky \/ q % 2 = 1))
                  m    == IF up THEN q + 1 ELSE q
              IN  IF m = P24 THEN <<s, P23, e + k + 1>> ELSE <<s, m, e + k>>

F32FromInt(i) == F32Round(IF i < 0 THEN -1 ELSE 1, Abs(i), 0, FALSE)

\* p = <<floor(x / d), x % d>> for some x: the same pair for x * 2^bits
DivStep(p, d, bits) ==
    <<p[1] * 2^bits + (p[2] * 2^bits) \div d, (p[2] * 2^bits) % d>>

\* a / b, b nonzero: floor(ma * 2^26 / mb) and its remainder by long division,
\* six bits at a time, then rounded
F32Div(a, b) ==
    IF a[2] = 0 THEN F32Zero
    ELSE LET p0 == <<a[2] \div b[2], a[2] % b[2]>>
             p1 == DivStep(p0, b[2], 6)
             p2 == DivStep(p1, b[2], 6)
             p3 == DivStep(p2, b[2], 6)
             p4 == DivStep(p3, b[2], 6)
             p5 == DivStep(p4, b[2], 2)
         IN  IF /\ Evaluated(p0) /\ Evaluated(p1) /\ Evaluated(p2)
                /\ Evaluated(p3) /\ Evaluated(p4) /\ Evaluated(p5)
             THEN F32Round(a[1] * b[1], p5[1], a[3] - b[3] - 26, p5[2] # 0)
             ELSE F32Zero

\* a * b: the 48-bit product of the mantissas in 12-bit limbs
F32Mul(a, b) ==
    IF a[2] = 0 \/ b[2] = 0 THEN F32Zero
    ELSE LET a1    == a[2] \div 4096
             a0    == a[2] % 4096
             b1    == b[2] \div 4096
             b0    == b[2] % 4096
             mid   == a1 * b0 + a0 * b1
             losum == a0 * b0 + (mid % 4096) * 4096
             hi    == a1 * b1 + mid \div 4096 + losum \div P24
             lo    == losum % P24
         IN  F32Round(a[1] * b[1], hi * 4 + lo \div P22, a[3] + b[3] + 22,
                      lo % P22 # 0)

\* a + b: three guard bits, the bits shifted out of the smaller operand
\* jammed into the last one
F32Add(a, b) ==
    IF a[2] = 0 THEN b
    ELSE IF b[2] = 0 THEN a
    ELSE LET x  == IF a[3] >= b[3] THEN a ELSE b
             y  == IF a[3] >= b[3] THEN b ELSE a
             d  == x[3] - y[3]
             A  == x[2] * 8
             B0 == IF d >= 27 THEN 0 ELSE (y[2] * 8) \div 2^d
             st == IF d >= 27 THEN TRUE ELSE (y[2] * 8) % 2^d # 0
             B  == IF st /\ B0 % 2 = 0 THEN B0 + 1 ELSE B0
         IN  IF x[1] = y[1] THEN F32Round(x[1], A + B, x[3] - 3, FALSE)
             ELSE IF A >= B THEN F32Round(x[1], A - B, x[3] - 3, FALSE)
             ELSE F32Round(y[1], B - A, x[3] - 3, FALSE)

\* Math.floor as an integer
F32FloorInt(a) ==
    LET s == a[1]
        m == a[2]
        e == a[3]
    IN  IF e >= 0 THEN s * m * 2^e
        ELSE LET t       == IF -e >= 24 THEN 0 ELSE m \div 2^(-e)
                 inexact == IF -e >= 24 THEN m # 0 ELSE m % 2^(-e) # 0
             IN  IF s = 1 THEN t ELSE -(t + (IF inexact THEN 1 ELSE 0))

F32Floor(a) == F32FromInt(F32FloorInt(a))

\* the number literal n/d as a float32 scalar
F32Lit(n, d) == F32Div(F32FromInt(n), F32FromInt(d))

-----------------------------------------------------------------------------
(* quantizeBlock, one element *)

MaxLevel == 28

\* a step of half the size, 128 / level
quantStepHalf(level) == F32Lit(128, level)

\* const step = 256 / this.options.quantizationLevel, as a float32 scalar
quantStep(level) == F32Lit(256, level)

\* tf.mul(tf.floor(tf.div(block, step)), step) on the element x
quantize(x, level) ==
    LET step     == quantStep(level)
        quotient == F32Div(x, step)
        floored  == F32Floor(quotient)
    IN  IF Evaluated(step) /\ Evaluated(quotient) /\ Evaluated(floored)
        THEN F32Mul(floored, step)
        ELSE F32Zero

\* the int32 sample v of fromPixels, upcast to float32 by tf.div
Sample(v) == F32FromInt(v)

NoProbe == [op |-> "none"]

-----------------------------------------------------------------------------
(* rationals: the coder's low, high and the probability bounds *)

RECURSIVE GCD(_, _)
GCD(a, b) == IF b = 0 THEN a ELSE GCD(b, a % b)

\* n / d in lowest terms, d > 0
Rat(n, d) == LET g == GCD(Abs(n), d) IN <<n \div g, d \div g>>

RatZero == <<0, 1>>
RatOne == <<1, 1>>
RatHalf == <<1, 2>>
RatAdd(a, b) == Rat(a[1] * b[2] + b[1] * a[2], a[2] * b[2])
RatSub(a, b) == Rat(a[1] * b[2] - b[1] * a[2], a[2] * b[2])
RatMul(a, b) == Rat(a[1] * b[1], a[2] * b[2])
RatLess(a, b) == a[1] * b[2] < b[1] * a[2]

\* (x * 2) % 1 for x >= 0
RatDouble1(x) == Rat((2 * x[1]) % x[2], x[2])

-----------------------------------------------------------------------------
(* constructor *)

DefaultBlockSize == 8
DefaultQuantizationLevel == 8

Has(o, f) == f \in DOMAIN o

\* a defaulting that keeps a given option only when both sizes are given
OrDefaultTogether(o, f, dflt) ==
    IF Has(o, "blockSize") /\ Has(o, "quantizationLevel") /\ o[f] # 0
    THEN o[f] ELSE dflt

\* options.f || dflt for a numeric option: undefined and 0 are falsy
OrDefault(o, f, dflt) == IF Has(o, f) /\ o[f] # 0 THEN o[f] ELSE dflt

\* this.options of new ImageDeepCABAC(o)
Construct(o) ==
    [blockSize         |-> OrDefault(o, "blockSize", DefaultBlockSize),
     quantizationLevel |-> OrDefault(o, "quantizationLevel", DefaultQuantizationLevel),
     colorSpace        |-> IF Has(o, "colorSpace") THEN o.colorSpace ELSE "YCbCr"]

-----------------------------------------------------------------------------
(* tensors: a shape and the row-major data *)

NoTensor == [shape |-> <<>>, data |-> <<>>]

\* a quotient that always adds one, also when b divides a
CeilDivPlusOne(a, b) == IF b > 0 THEN a \div b + 1 ELSE -(a \div (-b))

\* Math.ceil(a / b), a >= 0, b # 0
CeilDiv(a, b) == IF b > 0 THEN (a + b - 1) \div b ELSE -(a \div (-b))

\* tf.browser.fromPixels(imageData): int32, [height, width, 3], alpha dropped
fromPixels(img) ==
    [shape |-> <<img.height, img.width, 3>>,
     data  |-> [i \in 1..(img.height * img.width * 3) |->
                   img.data[((i - 1) \div 3) * 4 + ((i - 1) % 3) + 1]]]

loadImage(img) == fromPixels(img)

paddedHeight(t, bs) == CeilDiv(t.shape[1], bs) * bs
paddedWidth(t, bs) == CeilDiv(t.shape[2], bs) * bs

\* a tf.pad that puts the zero rows and columns before the image
padLeading(t, ph, pw) ==
    LET h  == t.shape[1]
        w  == t.shape[2]
        ch == t.shape[3]
    IN  [shape |-> <<ph, pw, ch>>,
         data  |-> [i \in 1..(ph * pw * ch) |->
                      LET r == (i - 1) \div (pw * ch) - (ph - h)
                          c == (((i - 1) \div ch) % pw) - (pw - w)
                          k == (i - 1) % ch
                      IN  IF r >= 0 /\ c >= 0
                          THEN t.data[(r * w + c) * ch + k + 1]
                          ELSE 0]]

\* tf.pad(tensor, [[0, paddedHeight - height], [0, paddedWidth - width], [0, 0]])
padTrailing(t, ph, pw) ==
    LET h  == t.shape[1]
        w  == t.shape[2]
        ch == t.shape[3]
    IN  [shape |-> <<ph, pw, ch>>,
         data  |-> [i \in 1..(ph * pw * ch) |->
                      LET r == (i - 1) \div (pw * ch)
                          c == ((i - 1) \div ch) % pw
                          k == (i - 1) % ch
                      IN  IF r < h /\ c < w
                          THEN t.data[(r * w + c) * ch + k + 1]
                          ELSE 0]]

\* tf.reshape(padded, [-1, blockSize, blockSize, channels]): the data is kept
\* in its row-major order and only the shape changes
reshapeBlocks(t, bs) ==
    LET ch == t.shape[3] IN
    [shape |-> <<Len(t.data) \div (bs * bs * ch), bs, bs, ch>>,
     data  |-> t.data]

\* tf.reshape rejects a shape with a negative size other than one -1
reshapeThrows(bs) == bs < 0

createImageBlocks(t, bs) ==
    reshapeBlocks(padTrailing(t, paddedHeight(t, bs), paddedWidth(t, bs)), bs)

quantizeBlock(t, level) ==
    [shape |-> t.shape,
     data  |-> [i \in 1..Len(t.data) |-> quantize(Sample(t.data[i]), level)]]


-----------------------------------------------------------------------------
(* colour conversion *)

F32Neg(a) == IF a[2] = 0 THEN a ELSE <<-a[1], a[2], a[3]>>
F32Sub(a, b) == F32Add(a, F32Neg(b))

\* rgbToYCbCr(r, g, b); the method computes in double precision, modelled
\* here with the same operations in the same order at float32 precision
rgbToYCbCr(r, g, b) ==
    LET y1  == F32Mul(F32Lit(299, 1000), r)
        y2  == F32Mul(F32Lit(587, 1000), g)
        y3  == F32Mul(F32Lit(114, 1000), b)
        y12 == F32Add(y1, y2)
        cb1 == F32Mul(F32Lit(168736, 1000000), r)
        cb2 == F32Mul(F32Lit(331264, 1000000), g)
        cb3 == F32Mul(F32Lit(5, 10), b)
        cbA == F32Sub(F32FromInt(128), cb1)
        cbB == F32Sub(cbA, cb2)
        cr1 == F32Mul(F32Lit(5, 10), r)
        cr2 == F32Mul(F32Lit(418688, 1000000), g)
        cr3 == F32Mul(F32Lit(81312, 1000000), b)
        crA == F32Add(F32FromInt(128), cr1)
        crB == F32Sub(crA, cr2)
    IN  IF /\ Evaluated(y1) /\ Evaluated(y2) /\ Evaluated(y3) /\ Evaluated(y12)
           /\ Evaluated(cb1) /\ Evaluated(cb2) /\ Evaluated(cb3)
           /\ Evaluated(cbA) /\ Evaluated(cbB)
           /\ Evaluated(cr1) /\ Evaluated(cr2) /\ Evaluated(cr3)
           /\ Evaluated(crA) /\ Evaluated(crB)
        THEN <<F32Add(y12, y3), F32Add(cbB, cb3), F32Sub(crB, cr3)>>
        ELSE <<F32Zero, F32Zero, F32Zero>>

\* the three scalars of output channel i in compress
coefChannel(i) ==
    IF i = 0 THEN F32Lit(299, 1000)
    ELSE IF i = 1 THEN F32Lit(-168736, 1000000) ELSE F32Lit(5, 10)
coefOther0(i) ==
    IF i = 0 THEN F32Lit(587, 1000)
    ELSE IF i = 1 THEN F32Lit(-331264, 1000000) ELSE F32Lit(-418688, 1000000)
coefOther1(i) ==
    IF i = 0 THEN F32Lit(114, 1000)
    ELSE IF i = 1 THEN F32Lit(5, 10) ELSE F32Lit(-81312, 1000000)

\* rgb.filter((_, j) => j !== i)
othersOf(rgb, i) ==
    IF i = 0 THEN <<rgb[2], rgb[3]>>
    ELSE IF i = 1 THEN <<rgb[1], rgb[3]>> ELSE <<rgb[1], rgb[2]>>

\* tf.add(tf.mul(channel, ..), tf.add(tf.mul(others[0], ..), tf.mul(others[1], ..)))
\* at one pixel, rgb = the pixel's three quantized samples, i = 0, 1, 2
convertChannel(rgb, i) ==
    LET channel == F32Mul(rgb[i + 1], coefChannel(i))
        other0  == F32Mul(othersOf(rgb, i)[1], coefOther0(i))
        other1  == F32Mul(othersOf(rgb, i)[2], coefOther1(i))
        others  == F32Add(other0, other1)
    IN  IF Evaluated(channel) /\ Evaluated(other0) /\ Evaluated(other1)
           /\ Evaluated(others)
        THEN F32Add(channel, others)
        ELSE F32Zero

\* a conversion that keeps the first output only: shape [n, bs, bs, 1, 1]
convertBlocksLuma(t) ==
    [shape |-> <<t.shape[1], t.shape[2], t.shape[3], 1, 1>>,
     data  |-> [p \in 1..(Len(t.data) \div 3) |->
                  convertChannel(<<t.data[3 * p - 2], t.data[3 * p - 1],
                                   t.data[3 * p]>>, 0)]]

\* tf.stack(rgb.map(...), -1) of the tf.split(quantized, 3, -1) channels:
\* shape [n, bs, bs, 1, 3], the three outputs of a pixel adjacent
convertBlocks(t) ==
    [shape |-> <<t.shape[1], t.shape[2], t.shape[3], 1, 3>>,
     data  |-> [k \in 1..Len(t.data) |->
                  LET p == (k - 1) \div 3
                  IN  convertChannel(<<t.data[3 * p + 1], t.data[3 * p + 2],
                                       t.data[3 * p + 3]>>, (k - 1) % 3)]]

-----------------------------------------------------------------------------
(* context model and arithmetic coder *)

contextSize == 4

Max(a, b) == IF a >= b THEN a ELSE b

\* a context that ends with the current sample: the samples at
\* max(0, index - contextSize + 1) .. index
getBlockContextInclusive(block, index) ==
    [j \in 1..(index + 1 - Max(0, index - contextSize + 1)) |->
        block[Max(0, index - contextSize + 1) + j]]

\* getBlockContext(block, index), index from 0: the samples at
\* max(0, index - contextSize) .. index - 1
getBlockContext(block, index) ==
    [j \in 1..(index - Max(0, index - contextSize)) |->
        block[Max(0, index - contextSize) + j]]

\* the key `${context}_${value}`: number-to-string conversion is injective
\* and neither separator occurs in a number
contextKey(context, value) == <<context, value>>

RECURSIVE SumFrequencies(_, _)
SumFrequencies(ctxs, keys) ==
    IF keys = {} THEN 0
    ELSE LET k == CHOOSE x \in keys : TRUE
         IN  ctxs[k] + SumFrequencies(ctxs, keys \ {k})

\* a getProbability whose total is that of the queried context only
getProbabilityScoped(value, context, ctxs) ==
    LET key       == contextKey(context, value)
        frequency == IF key \in DOMAIN ctxs THEN ctxs[key] ELSE 0
        total     == SumFrequencies(ctxs, {k \in DOMAIN ctxs : k[1] = context})
    IN  [low  |-> Rat(frequency, total + 1),
         high |-> Rat(frequency + 1, total + 1)]

\* a getProbability whose interval is empty: low = high
getProbabilityEmpty(value, context, ctxs) ==
    LET key       == contextKey(context, value)
        frequency == IF key \in DOMAIN ctxs THEN ctxs[key] ELSE 0
        total     == SumFrequencies(ctxs, DOMAIN ctxs)
    IN  [low  |-> Rat(frequency, total + 1),
         high |-> Rat(frequency, total + 1)]

\* a getProbability that reserves half of the interval for unseen symbols
getProbabilityHalved(value, context, ctxs) ==
    LET key       == contextKey(context, value)
        frequency == IF key \in DOMAIN ctxs THEN ctxs[key] ELSE 0
        total     == SumFrequencies(ctxs, DOMAIN ctxs)
    IN  [low  |-> Rat(frequency, total + 2),
         high |-> Rat(frequency + 1, total + 2)]

\* a getProbability that gives a sample other than zero the lower half
getProbabilityValued(value, context, ctxs) ==
    LET key       == contextKey(context, value)
        frequency == IF key \in DOMAIN ctxs THEN ctxs[key] ELSE 0
        total     == SumFrequencies(ctxs, DOMAIN ctxs)
    IN  [low  |-> Rat(frequency, total + 1),
         high |-> IF value = F32Zero
                  THEN Rat(frequency + 1, total + 1)
                  ELSE Rat(frequency + 1, 2 * (total + 1))]

\* bounds whose upper one leaves room for two more occurrences
intervalWide(frequency, total) ==
    [low  |-> Rat(frequency, total + 1),
     high |-> Rat(frequency + 2, total + 1)]

\* the object getProbability returns for a frequency and a total
interval(frequency, total) ==
    [low  |-> Rat(frequency, total + 1),
     high |-> Rat(frequency + 1, total + 1)]

\* getProbability(value, context) on the table ctxs
getProbability(value, context, ctxs) ==
    LET key       == contextKey(context, value)
        frequency == IF key \in DOMAIN ctxs THEN ctxs[key] ELSE 0
        total     == SumFrequencies(ctxs, DOMAIN ctxs)
    IN  interval(frequency, total)

\* the while condition of compressBlock
SameHalf(low, high) ==
    \/ RatLess(high, RatHalf) /\ RatLess(low, RatHalf)
    \/ ~RatLess(high, RatHalf) /\ ~RatLess(low, RatHalf)

MaxRenorm == 4

\* the while loop of compressBlock from coder state st, at most n iterations
\* (st.stuck is set when the loop did not end within them)
RECURSIVE Renormalize(_, _)
Renormalize(st, n) ==
    IF ~SameHalf(st.low, st.high) THEN st
    ELSE IF n = 0 THEN [st EXCEPT !.stuck = TRUE]
    ELSE Renormalize([st EXCEPT
                        !.bits = Append(@, IF RatLess(st.high, RatHalf) THEN 0 ELSE 1),
                        !.low  = RatDouble1(st.low),
                        !.high = RatDouble1(st.high),
                        !.seen = @ \cup {<<RatDouble1(st.low),
                                            RatDouble1(st.high)>>}], n - 1)

\* one iteration of the for loop of compressBlock, i from 0; st.asked records
\* the intervals getProbability returned, st.seen the <<low, high>> at the
\* start of the block, after each narrowing and after each renormalization,
\* st.ctxs is this.contexts, which the loop only reads
CodeSample(st, block, i) ==
    LET context     == getBlockContext(block, i)
        value       == block[i + 1]
        range       == RatSub(st.high, st.low)
        probability == getProbability(value, context, st.ctxs)
        high        == RatAdd(st.low, RatMul(range, probability.high))
        low         == RatAdd(st.low, RatMul(range, probability.low))
    IN  Renormalize([st EXCEPT
                       !.high  = high,
                       !.low   = low,
                       !.asked = @ \cup {probability},
                       !.seen  = @ \cup {<<low, high>>}], MaxRenorm)

\* the iterations i = from .. to of the for loop; the range is halved and the
\* state after the first half is evaluated before the second half starts,
\* which keeps the evaluation shallow
RECURSIVE CodeSamples(_, _, _, _)
CodeSamples(st, block, from, to) ==
    IF from > to THEN st
    ELSE IF from = to THEN CodeSample(st, block, from)
    ELSE LET mid  == (from + to) \div 2
             left == CodeSamples(st, block, from, mid)
         IN  IF Evaluated(left)
             THEN CodeSamples(left, block, mid + 1, to)
             ELSE left

\* a compressBlock that starts from the state a previous block might have
\* left: one bit emitted, the interval [0, 1/2)
compressBlockCarrying(block, ctxs) ==
    CodeSamples([low |-> RatZero, high |-> RatHalf, bits |-> <<0>>,
                 asked |-> {}, ctxs |-> ctxs, stuck |-> FALSE,
                 seen |-> {<<RatZero, RatHalf>>}],
                block, 0, Len(block) - 1)

\* compressBlock(block) with the table ctxs: the coder state at return
\* (bits is the value returned)
compressBlock(block, ctxs) ==
    CodeSamples([low |-> RatZero, high |-> RatOne, bits |-> <<>>,
                 asked |-> {}, ctxs |-> ctxs, stuck |-> FALSE,
                 seen |-> {<<RatZero, RatOne>>}],
                block, 0, Len(block) - 1)

\* block.flat(3) of block k (from 1) of blocks.array()
flatBlock(t, k) ==
    LET n == Len(t.data) \div t.shape[1]
    IN  SubSeq(t.data, (k - 1) * n + 1, k * n)

\* the for loop of compressBlocks over blocks from .. to (halved like the
\* loop over samples): out.compressed, the intervals asked for, and the table
\* the next block starts from
RECURSIVE codeBlocks(_, _, _, _)
codeBlocks(out, t, from, to) ==
    IF from > to THEN out
    ELSE IF from = to
    THEN LET st == compressBlock(flatBlock(t, from), out.ctxs)
         IN  IF Evaluated(st)
             THEN [compressed |-> Append(out.compressed, st.bits),
                   asked      |-> out.asked \cup st.asked,
                   seen       |-> out.seen \cup st.seen,
                   ctxs       |-> st.ctxs,
                   stuck      |-> out.stuck \/ st.stuck]
             ELSE out
    ELSE LET mid  == (from + to) \div 2
             left == codeBlocks(out, t, from, mid)
         IN  IF Evaluated(left) THEN codeBlocks(left, t, mid + 1, to) ELSE left

\* a compressBlocks that counts the first sample coded in the table
compressBlocksCounting(t, ctxs) ==
    LET out == codeBlocks([compressed |-> <<>>, asked |-> {}, seen |-> {},
                           ctxs |-> ctxs, stuck |-> FALSE], t, 1, t.shape[1])
        key == contextKey(<<>>, t.data[1])
    IN  [out EXCEPT !.ctxs =
           [k \in DOMAIN ctxs \cup {key} |->
              IF k = key
              THEN (IF k \in DOMAIN ctxs THEN ctxs[k] ELSE 0) + 1
              ELSE ctxs[k]]]

compressBlocks(t, ctxs) ==
    codeBlocks([compressed |-> <<>>, asked |-> {}, seen |-> {}, ctxs |-> ctxs,
                stuck |-> FALSE],
               t, 1, t.shape[1])

-----------------------------------------------------------------------------
(* compress: one instance, its calls issued one after another as the caller *)
(* in components/ImageCompressor.tsx does.  A call runs in the four          *)
(* synchronous stretches that its awaits delimit.                            *)

MaxDim == 3
MaxCalls == 2

Seeds == {1, 100}

\* an ImageData of the given size: RGBA bytes, the colour samples pairwise
\* different and nonzero, alpha 255
ImageOf(h, w, seed) ==
    [width  |-> w,
     height |-> h,
     data   |-> [k \in 1..(w * h * 4) |->
                   IF (k - 1) % 4 = 3 THEN 255
                   ELSE (seed + 25 * (3 * ((k - 1) \div 4) + ((k - 1) % 4))) % 256]]

Images == {ImageOf(h, w, seed) : h \in 1..MaxDim, w \in 1..MaxDim, seed \in Seeds}

ColorSpaceInputs == {"RGB", "YCbCr"}

\* the options objects handed to the constructor: every option given with
\* positive sizes, a non-positive block size or level, or some options left out
OptionInputs ==
    {[blockSize |-> b, quantizationLevel |-> q, colorSpace |-> cs] :
        b \in {1, 2}, q \in {1, 3}, cs \in ColorSpaceInputs}
    \cup {[blockSize |-> -1, quantizationLevel |-> 3, colorSpace |-> cs] :
            cs \in ColorSpaceInputs}
    \cup {[blockSize |-> 0, quantizationLevel |-> 3, colorSpace |-> "RGB"],
          [blockSize |-> 2, quantizationLevel |-> 0, colorSpace |-> "YCbCr"],
          [blockSize |-> 2, quantizationLevel |-> -4, colorSpace |-> "RGB"],
          [blockSize |-> 2],
          [blockSize |-> 1, quantizationLevel |-> 1],
          [colorSpace |-> "RGB"],
          [quantizationLevel |-> 3, colorSpace |-> "RGB"],
          [blockSize |-> 2, colorSpace |-> "YCbCr"]}

NoImage == [width |-> 0, height |-> 0, data |-> <<>>]
NoResult == [compressed |-> <<>>, metadata |-> <<>>]

IdleCall ==
    [pc        |-> "idle",
     image     |-> NoImage,
     tensor    |-> NoTensor,     \* const tensor
     blocks    |-> NoTensor,     \* const blocks
     quantized |-> NoTensor,     \* const quantized
     processed |-> NoTensor,     \* let processed
     processedIs |-> "none",     \* the buffer processed refers to
     compressed |-> <<>>,        \* compressedData
     asked     |-> {},           \* the intervals getProbability returned
     seen      |-> {},           \* the <<low, high>> the coder went through
     stuck     |-> FALSE,        \* a renormalization loop that did not end
     allocated |-> {},           \* the buffers the call created
     live      |-> {},           \* those not yet disposed
     disposed  |-> <<>>,         \* the dispose() calls, in order
     stages    |-> <<>>,         \* the stages run, in order
     result    |-> NoResult]

\* the buffers tf.tidy creates and releases when its callback returns
TidyTemporaries == {"rgb0", "rgb1", "rgb2", "products", "sums"}

Init ==
    /\ given \in OptionInputs
    /\ options = Construct(given)
    /\ contexts = <<>>
    /\ call = IdleCall
    /\ other = IdleCall
    /\ completed = 0
    /\ probe = NoProbe

\* the locals of a compress(imageData) at its first await: loadImage has run
started(img) ==
    [IdleCall EXCEPT
       !.pc        = "loading",
       !.image     = img,
       !.tensor    = loadImage(img),
       !.allocated = {"tensor"},
       !.live      = {"tensor"},
       !.stages    = <<"load">>]

\* compress(imageData) up to its first await
Compress(img) ==
    /\ call.pc \in {"idle", "returned", "failed"}
    /\ completed < MaxCalls
    /\ call' = started(img)
    /\ UNCHANGED <<given, options, contexts, other, completed, probe>>

\* createImageBlocks throws in tf.reshape: the call rejects, with the image
\* volume and the padded volume never disposed
tilingFailed(c) ==
    [c EXCEPT
       !.pc        = "failed",
       !.allocated = @ \cup {"padded"},
       !.live      = @ \cup {"padded"},
       !.stages    = Append(@, "tile")]

TilingFails ==
    /\ call.pc = "loading"
    /\ reshapeThrows(options.blockSize)
    /\ call' = tilingFailed(call)
    /\ completed' = completed + 1
    /\ UNCHANGED <<given, options, contexts, other, probe>>

\* a pipeline that converts the tiled samples first and quantizes the
\* converted ones
prepareTransformFirst(tensor, opts) ==
    LET blocks    == createImageBlocks(tensor, opts.blockSize)
        ycbcr     == opts.colorSpace = "YCbCr"
        samples   == [shape |-> blocks.shape,
                      data  |-> [i \in 1..Len(blocks.data) |->
                                   Sample(blocks.data[i])]]
        converted == IF ycbcr THEN convertBlocks(samples) ELSE samples
        quantized == [shape |-> converted.shape,
                      data  |-> [i \in 1..Len(converted.data) |->
                                   quantize(converted.data[i],
                                            opts.quantizationLevel)]]
    IN  [blocks      |-> blocks,
         quantized   |-> quantized,
         processed   |-> quantized,
         processedIs |-> "quantized",
         stages      |-> IF ycbcr THEN <<"tile", "transform", "quantize">>
                         ELSE <<"tile", "quantize">>]

\* lines 60-80 of compress: createImageBlocks, quantizeBlock, then the
\* conversion of the quantized blocks when the colour space is YCbCr
prepare(tensor, opts) ==
    LET blocks    == createImageBlocks(tensor, opts.blockSize)
        quantized == quantizeBlock(blocks, opts.quantizationLevel)
        ycbcr     == opts.colorSpace = "YCbCr"
    IN  IF Evaluated(blocks) /\ Evaluated(quantized)
        THEN [blocks      |-> blocks,
              quantized   |-> quantized,
              processed   |-> IF ycbcr THEN convertBlocks(quantized)
                              ELSE quantized,
              processedIs |-> IF ycbcr THEN "converted" ELSE "quantized",
              stages      |-> <<"tile", "quantize">>
                                \o (IF ycbcr THEN <<"transform">> ELSE <<>>)]
        ELSE [blocks |-> blocks, quantized |-> quantized,
              processed |-> quantized, processedIs |-> "quantized",
              stages |-> <<>>]

\* from the first await to the await in compressBlocks: createImageBlocks,
\* quantizeBlock, the conversion under tf.tidy, then blocks.array() is asked for
\* the locals of the call when it awaits blocks.array()
prepared(c, done, opts) ==
    LET ycbcr == opts.colorSpace = "YCbCr"
    IN  [c EXCEPT
           !.pc          = "coding",
           !.blocks      = done.blocks,
           !.quantized   = done.quantized,
           !.processed   = done.processed,
           !.processedIs = done.processedIs,
           !.allocated   = @ \cup {"padded", "blocks", "divided", "floored",
                                   "quantized"}
                             \cup (IF ycbcr
                                   THEN TidyTemporaries \cup {"converted"}
                                   ELSE {}),
           !.live        = @ \cup {"padded", "blocks", "divided", "floored",
                                   "quantized"}
                             \cup (IF ycbcr THEN {"converted"} ELSE {}),
           !.stages      = @ \o done.stages]

Prepare ==
    /\ call.pc = "loading"
    /\ ~reshapeThrows(options.blockSize)
    /\ LET done == prepare(call.tensor, options)
       IN  /\ Evaluated(done)
           /\ call' = prepared(call, done, options)
    /\ UNCHANGED <<given, options, contexts, other, completed, probe>>

\* compressBlocks after its await: every block coded, compressed returned;
\* a renormalization loop that does not end keeps the call, and the thread,
\* in compressBlock for ever
blocksCoded(c, out) ==
    [c EXCEPT
       !.pc         = IF out.stuck THEN "spinning" ELSE "coded",
       !.compressed = out.compressed,
       !.asked      = out.asked,
       !.seen       = out.seen,
       !.stuck      = out.stuck,
       !.stages     = Append(@, "code")]

CodeBlocks ==
    /\ call.pc = "coding"
    /\ LET out == compressBlocks(call.processed, contexts)
       IN  /\ call' = blocksCoded(call, out)
           /\ contexts' = out.ctxs
    /\ UNCHANGED <<given, options, other, completed, probe>>

\* a cleanup that disposes processed whatever it refers to
CleanupAlways(c) ==
    <<"tensor", "blocks", "quantized", c.processedIs>>

\* the buffers disposed after coding: tensor, blocks, quantized, and
\* processed when it is not quantized
Cleanup(c) ==
    <<"tensor", "blocks", "quantized">>
      \o (IF c.processedIs # "quantized" THEN <<c.processedIs>> ELSE <<>>)

\* a metadata that reports the padded size of the image
metadataOfPadded(img, opts) ==
    [width             |-> CeilDiv(img.width, opts.blockSize) * opts.blockSize,
     height            |-> CeilDiv(img.height, opts.blockSize) * opts.blockSize,
     colorSpace        |-> opts.colorSpace,
     blockSize         |-> opts.blockSize,
     quantizationLevel |-> opts.quantizationLevel]

\* the metadata object of the value compress returns
metadataOf(img, opts) ==
    [width             |-> img.width,
     height            |-> img.height,
     colorSpace        |-> opts.colorSpace,
     blockSize         |-> opts.blockSize,
     quantizationLevel |-> opts.quantizationLevel]

\* compress after compressBlocks resolved: cleanup and the value returned
returned(c, opts) ==
    [c EXCEPT
       !.pc       = "returned",
       !.live     = @ \ {Cleanup(c)[i] : i \in DOMAIN Cleanup(c)},
       !.disposed = @ \o Cleanup(c),
       !.stages   = Append(@, "dispose"),
       !.result   =
          [compressed |-> c.compressed,
           metadata   |-> metadataOf(c.image, opts)]]

Return ==
    /\ call.pc = "coded"
    /\ call' = returned(call, options)
    /\ completed' = completed + 1
    /\ UNCHANGED <<given, options, contexts, other, probe>>

Next ==
    \/ \E img \in Images : Compress(img)
    \/ TilingFails
    \/ Prepare
    \/ CodeBlocks
    \/ Return

Spec == Init /\ [][Next]_vars

\* a step in which the call leaves the position pc.  Such a step is possible
\* exactly when call.pc = pc: at "loading" one of TilingFails and Prepare is
\* enabled, at "coding" CodeBlocks, at "coded" Return.  (The first disjunct
\* implies the second; it names one such step outright, which spares TLC the
\* evaluation of the whole pipeline when it only asks whether one exists.)
Leaves(pc) ==
    /\ call.pc = pc
    /\ \/ /\ call' = [call EXCEPT !.pc = "left"]
          /\ UNCHANGED <<given, options, contexts, other, completed, probe>>
       \/ call'.pc # pc

\* the continuations of a call are run once they are ready: every step but
\* the caller's next call to compress is taken when it stays possible
SpecLive ==
    /\ Init
    /\ [][Next]_vars
    /\ WF_vars(Leaves("loading"))
    /\ WF_vars(Leaves("coding"))
    /\ WF_vars(Leaves("coded"))

-----------------------------------------------------------------------------
(* Specification of the quantizer alone: quantizeBlock applied once and    *)
(* again to every sample value at every level 1..MaxLevel.                 *)

InitQ ==
    /\ given = [colorSpace |-> "RGB"]
    /\ options = Construct(given)
    /\ contexts = <<>>
    /\ call = IdleCall
    /\ other = IdleCall
    /\ completed = 0
    /\ \E x \in 0..255, l \in 1..MaxLevel :
          probe = [op |-> "sample", x |-> x, level |-> l]

QuantizeOnce ==
    /\ probe.op = "sample"
    /\ probe' = [op |-> "quantized", x |-> probe.x, level |-> probe.level,
                 q |-> quantize(Sample(probe.x), probe.level)]
    /\ UNCHANGED <<given, options, contexts, call, other, completed>>

QuantizeAgain ==
    /\ probe.op = "quantized"
    /\ probe' = [op |-> "requantized", x |-> probe.x, level |-> probe.level,
                 q |-> probe.q, qq |-> quantize(probe.q, probe.level)]
    /\ UNCHANGED <<given, options, contexts, call, other, completed>>

NextQ == QuantizeOnce \/ QuantizeAgain

SpecQ == InitQ /\ [][NextQ]_vars

-----------------------------------------------------------------------------
(* Specification of the context model alone: the formulas of getProbability *)
(* applied to every count and total up to MaxCount, and getProbability      *)
(* applied to every table over TableKeys with counts up to MaxCount.        *)

MaxCount == 5

\* keys `${context}_${value}` of a table: context and value
TableKeys == {contextKey(<<>>, 0), contextKey(<<0>>, 1)}

\* the tables this.contexts can be: some keys, each with a frequency
Tables == UNION {[K -> 0..MaxCount] : K \in SUBSET TableKeys}

\* the (context, value) pairs asked for: in the table or not
AskedKeys == TableKeys \cup {contextKey(<<0, 1>>, 0)}

InitP ==
    /\ given = [colorSpace |-> "RGB"]
    /\ options = Construct(given)
    /\ contexts = <<>>
    /\ call = IdleCall
    /\ other = IdleCall
    /\ completed = 0
    /\ \/ \E count \in 0..MaxCount, total \in 0..MaxCount :
             probe = [op |-> "counts", count |-> count, total |-> total]
       \/ \E t \in Tables, k \in AskedKeys :
             probe = [op |-> "table", table |-> t, context |-> k[1],
                      value |-> k[2]]

\* the formulas on a count and a total
ApplyFormulas ==
    /\ probe.op = "counts"
    /\ probe' = [op |-> "interval", count |-> probe.count,
                 total |-> probe.total,
                 p |-> interval(probe.count, probe.total)]
    /\ UNCHANGED <<given, options, contexts, call, other, completed>>

\* getProbability on a table
AskTable ==
    /\ probe.op = "table"
    /\ probe' = [op |-> "asked", table |-> probe.table,
                 context |-> probe.context, value |-> probe.value,
                 p |-> getProbability(probe.value, probe.context, probe.table)]
    /\ UNCHANGED <<given, options, contexts, call, other, completed>>

NextP == ApplyFormulas \/ AskTable

SpecP == InitP /\ [][NextP]_vars

-----------------------------------------------------------------------------
(* Specification of the renormalization loop alone: the while loop of      *)
(* compressBlock started from every interval low <= high of rationals in   *)
(* [0, 1] with denominators up to MaxDen.                                  *)

MaxDen == 8

\* the rationals n / d in [0, 1] with d <= MaxDen
UnitRationals == UNION {{Rat(n, d) : n \in 0..d} : d \in 1..MaxDen}

InitR ==
    /\ given = [colorSpace |-> "RGB"]
    /\ options = Construct(given)
    /\ contexts = <<>>
    /\ call = IdleCall
    /\ other = IdleCall
    /\ completed = 0
    /\ \E low \in UnitRationals, high \in UnitRationals :
          /\ ~RatLess(high, low)
          /\ probe = [op |-> "narrowed", low |-> low, high |-> high]

\* the while loop from the interval of the probe; an interval of width w > 0
\* that the loop handles leaves it after at most log2(1 / w) iterations, far
\* fewer than the 2 * MaxDen allowed here
RunLoop ==
    /\ probe.op = "narrowed"
    /\ LET st == Renormalize([low |-> probe.low, high |-> probe.high,
                              bits |-> <<>>, asked |-> {}, ctxs |-> <<>>,
                              stuck |-> FALSE,
                              seen |-> {<<probe.low, probe.high>>}],
                             2 * MaxDen)
       IN  probe' = [op |-> "renormalized",
                     from |-> <<probe.low, probe.high>>,
                     low |-> st.low, high |-> st.high,
                     bits |-> st.bits, stuck |-> st.stuck]
    /\ UNCHANGED <<given, options, contexts, call, other, completed>>

NextR == RunLoop

SpecR == InitR /\ [][NextR]_vars

-----------------------------------------------------------------------------
(* Two compress calls in flight on one instance: the caller does not await  *)
(* the first before it issues the second, and each call runs in the         *)
(* stretches between its own awaits, in any order with the stretches of the *)
(* other.  this.options and this.contexts are the state they share.         *)

ImagesI == {ImageOf(1, w, seed) : w \in 1..MaxDim, seed \in Seeds}

OptionInputsI ==
    {[blockSize |-> 2, quantizationLevel |-> 3, colorSpace |-> cs] :
        cs \in ColorSpaceInputs}
    \cup {[blockSize |-> 1, quantizationLevel |-> 1, colorSpace |-> "YCbCr"],
          [blockSize |-> -1, quantizationLevel |-> 3, colorSpace |-> "RGB"]}

InitI ==
    /\ given \in OptionInputsI
    /\ options = Construct(given)
    /\ contexts = <<>>
    /\ call = IdleCall
    /\ other = IdleCall
    /\ completed = 0
    /\ probe = NoProbe

\* no call is inside a loop that does not end, which would keep the one
\* thread and let no other stretch run
ThreadFree == call.pc # "spinning" /\ other.pc # "spinning"

CompressOther(img) ==
    /\ other.pc \in {"idle", "returned", "failed"}
    /\ completed < MaxCalls
    /\ other' = started(img)
    /\ UNCHANGED <<given, options, contexts, call, completed, probe>>

TilingFailsOther ==
    /\ other.pc = "loading"
    /\ reshapeThrows(options.blockSize)
    /\ other' = tilingFailed(other)
    /\ completed' = completed + 1
    /\ UNCHANGED <<given, options, contexts, call, probe>>

PrepareOther ==
    /\ other.pc = "loading"
    /\ ~reshapeThrows(options.blockSize)
    /\ LET done == prepare(other.tensor, options)
       IN  /\ Evaluated(done)
           /\ other' = prepared(other, done, options)
    /\ UNCHANGED <<given, options, contexts, call, completed, probe>>

CodeBlocksOther ==
    /\ other.pc = "coding"
    /\ LET out == compressBlocks(other.processed, contexts)
       IN  /\ other' = blocksCoded(other, out)
           /\ contexts' = out.ctxs
    /\ UNCHANGED <<given, options, call, completed, probe>>

ReturnOther ==
    /\ other.pc = "coded"
    /\ other' = returned(other, options)
    /\ completed' = completed + 1
    /\ UNCHANGED <<given, options, contexts, call, probe>>

NextI ==
    \/ ThreadFree /\ \E img \in ImagesI : Compress(img)
    \/ ThreadFree /\ TilingFails
    \/ ThreadFree /\ Prepare
    \/ ThreadFree /\ CodeBlocks
    \/ ThreadFree /\ Return
    \/ ThreadFree /\ \E img \in ImagesI : CompressOther(img)
    \/ ThreadFree /\ TilingFailsOther
    \/ ThreadFree /\ PrepareOther
    \/ ThreadFree /\ CodeBlocksOther
    \/ ThreadFree /\ ReturnOther

SpecI == InitI /\ [][NextI]_vars

-----------------------------------------------------------------------------
(* Properties of the compressor, checked against Spec (and SpecQ for the   *)
(* quantizer).                                                             *)

\* an option was given with a zero or negative value
GivenNonPositive(f) == Has(given, f) /\ given[f] <= 0

\* the configuration handed to the constructor is a valid one
ValidConfig ==
    /\ ~GivenNonPositive("blockSize")
    /\ ~GivenNonPositive("quantizationLevel")

\* the call has left createImageBlocks
Tiled == call.pc \in {"coding", "coded", "returned"}

\* the call has left compressBlocks
Coded == call.pc \in {"coded", "returned"}

\* samples of one flattened block
SamplesPerBlock == options.blockSize * options.blockSize * 3

\* C1: for every image of at least 1x1 and every valid configuration, every
\* per-block bit sequence returned by compress is non-empty.
C1_BitSequencesNonEmpty ==
    (call.pc = "returned" /\ ValidConfig
       /\ call.image.width >= 1 /\ call.image.height >= 1)
    => /\ Len(call.result.compressed) >= 1
       /\ \A k \in DOMAIN call.result.compressed :
             Len(call.result.compressed[k]) >= 1

\* a valid configuration returned its result for an image, with blocks coded
C1_Returned ==
    /\ call.pc = "returned"
    /\ ValidConfig
    /\ Len(call.result.compressed) >= 1

C3_IntervalIsUnit ==
    \A p \in call.asked : p.low = RatZero /\ p.high = RatOne

\* a later call on a compressor that has completed calls asked for intervals
C3_AskedAfterEarlierCalls ==
    /\ completed >= 1
    /\ call.pc = "coded"
    /\ call.asked # {}

\* ceil(a / b) for a >= 0, b >= 1
CeilOf(a, b) == IF a % b = 0 THEN a \div b ELSE a \div b + 1

\* ceil(height / blockSize) * ceil(width / blockSize) of the call's image
ExpectedBlocks ==
    CeilOf(call.image.height, options.blockSize)
      * CeilOf(call.image.width, options.blockSize)

\* C4: for blockSize >= 1 the number of blocks createImageBlocks produces,
\* and the number of bit sequences compress returns, is
\* ceil(height / blockSize) * ceil(width / blockSize).
C4_BlockCount ==
    /\ (Tiled /\ options.blockSize >= 1)
         => call.blocks.shape[1] = ExpectedBlocks
    /\ (Coded /\ options.blockSize >= 1)
         => Len(call.compressed) = ExpectedBlocks
    /\ (call.pc = "returned" /\ options.blockSize >= 1)
         => Len(call.result.compressed) = ExpectedBlocks

\* an image that needs padding in both directions was returned as four
\* bit sequences
C4_PaddedImageReturned ==
    /\ call.pc = "returned"
    /\ options.blockSize = 2
    /\ call.image.height = 3
    /\ call.image.width = 3
    /\ Len(call.result.compressed) = 4

\* the padded volume createImageBlocks reshapes
PaddedOf(c) ==
    padTrailing(c.tensor, paddedHeight(c.tensor, options.blockSize),
                paddedWidth(c.tensor, options.blockSize))

\* sample (row, col, ch) of a [rows, cols, 3] volume
At3(t, row, col, ch) == t.data[(row * t.shape[2] + col) * 3 + ch + 1]

\* sample (i, j, ch) of block k of the block volume, all from 0
AtBlock(t, k, i, j, ch) ==
    t.data[((k * t.shape[2] + i) * t.shape[3] + j) * 3 + ch + 1]

\* C5: each block is a blockSize x blockSize spatial tile, blocks enumerated
\* left to right, top to bottom: sample (i, j, c) of block
\* by * ceil(width / blockSize) + bx is the padded image's sample at row
\* by * blockSize + i, column bx * blockSize + j, channel c.
C5_BlocksAreTiles ==
    (Tiled /\ options.blockSize >= 1)
    => LET bs     == options.blockSize
           across == CeilOf(call.image.width, bs)
           down   == CeilOf(call.image.height, bs)
           padded == PaddedOf(call)
       IN  \A by \in 0..(down - 1), bx \in 0..(across - 1),
              i \in 0..(bs - 1), j \in 0..(bs - 1), c \in 0..2 :
              AtBlock(call.blocks, by * across + bx, i, j, c)
                = At3(padded, by * bs + i, bx * bs + j, c)

\* an image wider than one block was tiled
C5_WideImageTiled ==
    /\ Tiled
    /\ options.blockSize = 2
    /\ call.image.width = 3

\* C6: createImageBlocks pads on the trailing edges only and loses nothing:
\* the block volume, read in row-major order as the padded image, holds the
\* source sample (r, c, ch) at row r, column c and nowhere else, unchanged,
\* and every position that holds no source sample holds 0.
C6_TrailingPaddingKeepsSamples ==
    (Tiled /\ options.blockSize >= 1)
    => LET h  == call.image.height
           w  == call.image.width
           pw == CeilOf(w, options.blockSize) * options.blockSize
           ph == CeilOf(h, options.blockSize) * options.blockSize
       IN  /\ Len(call.blocks.data) = ph * pw * 3
           /\ \A r \in 0..(ph - 1), c \in 0..(pw - 1), ch \in 0..2 :
                 call.blocks.data[(r * pw + c) * 3 + ch + 1]
                   = IF r < h /\ c < w
                     THEN call.image.data[(r * w + c) * 4 + ch + 1]
                     ELSE 0
           /\ \A p \in DOMAIN call.tensor.data :
                 Cardinality({q \in DOMAIN call.blocks.data :
                                call.blocks.data[q] = call.tensor.data[p]}) = 1

\* an image that needs padding at the bottom and at the right was tiled
C6_PaddedBothWays ==
    /\ Tiled
    /\ options.blockSize = 2
    /\ call.image.height = 3
    /\ call.image.width = 1
    /\ Len(call.blocks.data) = 24

\* C7: quantization is idempotent: for every sample x in 0..255 and every
\* positive level L, quantize(quantize(x, L), L) = quantize(x, L).
C7_QuantizeIdempotent ==
    probe.op = "requantized" => probe.qq = probe.q

\* a sample was quantized twice
C7_QuantizedTwice ==
    /\ probe.op = "requantized"
    /\ probe.x = 163
    /\ probe.level = 11

\* a < b
F32Less(a, b) ==
    LET c == F32Add(a, <<-b[1], b[2], b[3]>>) IN c[2] # 0 /\ c[1] = -1

\* |a - b| < 1/2 for two float32 values
F32Near(a, b) ==
    LET d == F32Sub(a, b)
    IN  F32Less(<<1, d[2], d[3]>>, F32Lit(1, 2))

\* C8: in YCbCr mode the three components fed to the coder for each pixel
\* are the (Y, Cb, Cr) of the pixel's quantized (R, G, B) under the fixed
\* transform, i.e. the in-pipeline conversion agrees with rgbToYCbCr (here
\* to within one half, which leaves room for rounding).
C8_ConversionAgrees ==
    (Tiled /\ options.colorSpace = "YCbCr")
    => \A p \in 0..(Len(call.quantized.data) \div 3 - 1) :
          LET rgb  == <<call.quantized.data[3 * p + 1],
                        call.quantized.data[3 * p + 2],
                        call.quantized.data[3 * p + 3]>>
              want == rgbToYCbCr(rgb[1], rgb[2], rgb[3])
          IN  \A i \in 1..3 : F32Near(call.processed.data[3 * p + i], want[i])

\* a YCbCr call converted its blocks
C8_Converted ==
    /\ Tiled
    /\ options.colorSpace = "YCbCr"
    /\ call.processedIs = "converted"
    /\ Len(call.processed.data) >= 3

\* C9: a configuration with a non-positive blockSize or quantizationLevel is
\* rejected before any processing of the image begins, and no compressed
\* output is produced for it.
C9_NonPositiveRejected ==
    ~ValidConfig => /\ call.stages = <<>>
                    /\ call.result = NoResult

\* a non-positive option was given and a call was made
C9_NonPositiveGiven ==
    /\ ~ValidConfig
    /\ call.pc # "idle"

\* C10: when compress completes successfully no buffer the call created is
\* still live, in RGB and in YCbCr mode.
C10_AllReleased ==
    call.pc = "returned" => call.live = {}

\* a call completed successfully
C10_Completed ==
    /\ call.pc = "returned"
    /\ call.allocated # {}

\* C11: when a stage of compress raises, every intermediate buffer allocated
\* before the failure point has been released by the time the failure
\* reaches the caller.
C11_ReleasedOnFailure ==
    call.pc = "failed" => call.live = {}

\* a call failed after it had allocated buffers
C11_FailedAfterAllocating ==
    /\ call.pc = "failed"
    /\ call.allocated # {}

\* a flattened block of zeros
ZeroBlock == [i \in 1..SamplesPerBlock |-> F32Zero]

\* C12: with quantizationLevel = 1 quantizeBlock maps every sample in 0..255
\* to 0, and compress produces the same bit sequence for every block
\* whatever the image holds: the sequence a block of zeros gives.  (The
\* first conjunct does not depend on the state; it is evaluated in the
\* states where a first call has just quantized.)
C12_LevelOneCollapses ==
    /\ (call.pc = "coding" /\ completed = 0 /\ options.quantizationLevel = 1)
         => \A x \in 0..255 : quantize(Sample(x), 1) = F32Zero
    /\ (Tiled /\ options.quantizationLevel = 1)
         => \A i \in DOMAIN call.quantized.data :
               call.quantized.data[i] = F32Zero
    /\ (Coded /\ options.quantizationLevel = 1)
         => \A k \in DOMAIN call.compressed :
               call.compressed[k] = compressBlock(ZeroBlock, contexts).bits

\* an image with large samples was compressed at level 1 into several blocks
C12_LevelOneCoded ==
    /\ Coded
    /\ options.quantizationLevel = 1
    /\ Len(call.compressed) >= 2
    /\ \E i \in DOMAIN call.tensor.data : call.tensor.data[i] >= 128

\* C13: the metadata compress returns echoes the input: width and height are
\* the image's unpadded width and height, and colorSpace, blockSize and
\* quantizationLevel are the values the compressor was configured with and
\* used for the call.
C13_MetadataEchoes ==
    call.pc = "returned"
    => LET md == call.result.metadata
       IN  /\ md.width = call.image.width
           /\ md.height = call.image.height
           /\ md.colorSpace = options.colorSpace
           /\ md.blockSize = options.blockSize
           /\ md.quantizationLevel = options.quantizationLevel
           /\ \A f \in {"blockSize", "quantizationLevel"} :
                 (Has(given, f) /\ given[f] # 0) => md[f] = given[f]
           /\ Has(given, "colorSpace") => md.colorSpace = given.colorSpace
           /\ call.blocks.shape[2] = md.blockSize
           /\ call.blocks.shape[3] = md.blockSize
           /\ \A i \in DOMAIN call.blocks.data :
                 call.quantized.data[i]
                   = quantize(Sample(call.blocks.data[i]), md.quantizationLevel)
           /\ (call.processedIs = "converted") <=> (md.colorSpace = "YCbCr")

\* a padded image was returned with its metadata
C13_PaddedReturned ==
    /\ call.pc = "returned"
    /\ call.image.width = 3
    /\ call.image.height = 1
    /\ call.result.metadata.blockSize = 2

\* C14: each option the caller omits takes its default independently of the
\* others (blockSize 8, quantizationLevel 8, colorSpace YCbCr), and every
\* option supplied as a positive integer (or as RGB / YCbCr) is used as
\* given.
C14_DefaultsIndependent ==
    /\ \A f \in {"blockSize", "quantizationLevel"} :
          /\ ~Has(given, f) => options[f] = 8
          /\ (Has(given, f) /\ given[f] >= 1) => options[f] = given[f]
    /\ ~Has(given, "colorSpace") => options.colorSpace = "YCbCr"
    /\ Has(given, "colorSpace") => options.colorSpace = given.colorSpace
    /\ Tiled => /\ call.blocks.shape[2] = options.blockSize
                /\ (call.processedIs = "converted")
                     <=> (options.colorSpace = "YCbCr")

\* a compressor built with one size given and the other left out ran a call
C14_OneSizeOmitted ==
    /\ Tiled
    /\ Has(given, "blockSize") # Has(given, "quantizationLevel")

\* 0 <= low < high <= 1 for an interval of rationals
WithinUnit(p) ==
    /\ ~RatLess(p.low, RatZero)
    /\ RatLess(p.low, p.high)
    /\ ~RatLess(RatOne, p.high)

C16_TableStaysEmpty ==
    /\ DOMAIN contexts = {}
    /\ SumFrequencies(contexts, DOMAIN contexts) = 0

\* two calls have coded their blocks on the same compressor
C16_AfterTwoCalls ==
    /\ completed >= 2
    /\ call.pc = "returned"
    /\ Len(call.result.compressed) >= 1

\* C17: in compressBlock the coder interval never shrinks and never becomes
\* zero-width: at the start of the block, after the narrowing for each
\* sample and after each renormalization, low = 0 and high = 1, so
\* low < high at every point of every run (and no renormalization loop
\* fails to end).
C17_IntervalStaysUnit ==
    /\ \A iv \in call.seen :
          /\ iv = <<RatZero, RatOne>>
          /\ RatLess(iv[1], iv[2])
    /\ ~call.stuck

\* several blocks of several samples were coded
C17_BlocksCoded ==
    /\ Coded
    /\ call.seen # {}
    /\ Len(call.compressed) >= 4
    /\ SamplesPerBlock >= 12

\* C18: in YCbCr mode compress runs its stages in the order tile, quantize,
\* colour transform, entropy-code: the transform is applied to the already
\* quantized blocks, and block coding starts only after the transform of all
\* blocks is complete.
C18_QuantizeThenTransform ==
    options.colorSpace = "YCbCr"
    => /\ call.pc = "loading"
            => call.stages = <<"load">> /\ call.asked = {}
       /\ Tiled
            => /\ SubSeq(call.stages, 1, 4)
                    = <<"load", "tile", "quantize", "transform">>
               /\ call.processed.data
                    = [k \in DOMAIN call.quantized.data |->
                         convertChannel(
                           <<call.quantized.data[3 * ((k - 1) \div 3) + 1],
                             call.quantized.data[3 * ((k - 1) \div 3) + 2],
                             call.quantized.data[3 * ((k - 1) \div 3) + 3]>>,
                           (k - 1) % 3)]
               /\ \A i \in DOMAIN call.blocks.data :
                     call.quantized.data[i]
                       = quantize(Sample(call.blocks.data[i]),
                                  options.quantizationLevel)
       /\ call.pc = "coding"
            => /\ Len(call.stages) = 4
               /\ call.asked = {}
               /\ call.compressed = <<>>
       /\ Coded
            => /\ call.stages[5] = "code"
               /\ call.asked # {}

\* a YCbCr call coded the blocks of an image with nonzero quantized samples
C18_ConvertedThenCoded ==
    /\ options.colorSpace = "YCbCr"
    /\ Coded
    /\ Len(call.compressed) >= 2
    /\ \E i \in DOMAIN call.quantized.data : call.quantized.data[i] # F32Zero

\* C19: the stages run as colour transform, then tile, then quantize, then
\* per-block entropy-code: the transform comes before tiling and before
\* quantization, so the samples given to the arithmetic coder are outputs of
\* the quantizer.
C19_TransformThenQuantize ==
    (Tiled /\ options.colorSpace = "YCbCr")
    => /\ SubSeq(call.stages, 1, 4)
            = <<"load", "transform", "tile", "quantize">>
       /\ call.processed.data = call.quantized.data

\* a YCbCr call has handed its samples to the coder
C19_HandedToCoder ==
    /\ Tiled
    /\ options.colorSpace = "YCbCr"
    /\ Len(call.processed.data) >= 3

\* C20: for every flattened block and every index i the context built by
\* getBlockContext is exactly the samples at indices max(0, i - 4) .. i - 1
\* of that block, in scan order: empty at index 0, i samples for i in 1..3,
\* 4 samples for i >= 4, never the current sample, a later one or a sample
\* of another block.
C20_ContextIsPrecedingSamples ==
    Tiled
    => LET n == Len(call.processed.data) \div call.processed.shape[1]
       IN  \A k \in 1..call.processed.shape[1], i \in 0..(n - 1) :
              LET context == getBlockContext(flatBlock(call.processed, k), i)
                  size    == IF i < 4 THEN i ELSE 4
              IN  /\ Len(context) = size
                  /\ \A j \in 1..size :
                        context[j]
                          = call.processed.data[(k - 1) * n + (i - size) + j]

\* blocks of more than four samples, not all alike, were handed to the coder
C20_LongBlocks ==
    /\ Tiled
    /\ call.processed.shape[1] >= 2
    /\ Len(call.processed.data) \div call.processed.shape[1] >= 12
    /\ \E i, j \in DOMAIN call.processed.data :
          call.processed.data[i] # call.processed.data[j]

\* the coder state at the start of a block
FreshCoder ==
    [low |-> RatZero, high |-> RatOne, bits |-> <<>>, asked |-> {},
     ctxs |-> contexts, stuck |-> FALSE, seen |-> {<<RatZero, RatOne>>}]

\* C21: blocks are coded independently and in order: the coder starts every
\* block at low = 0, high = 1 with nothing emitted, nothing carries from one
\* block to the next, and the k-th bit sequence of the output is the
\* encoding of the k-th block.
C21_BlocksCodedIndependently ==
    Coded
    => /\ Len(call.compressed) = call.processed.shape[1]
       /\ \A k \in DOMAIN call.compressed :
             LET block == flatBlock(call.processed, k)
                 alone == CodeSamples(FreshCoder, block, 0, Len(block) - 1)
             IN  /\ call.compressed[k] = alone.bits
                 /\ alone.seen \subseteq call.seen
       /\ \A iv \in call.seen :
             \E k \in DOMAIN call.compressed :
                LET block == flatBlock(call.processed, k)
                IN  iv \in CodeSamples(FreshCoder, block, 0, Len(block) - 1).seen

\* several blocks with different contents were coded
C21_SeveralBlocksCoded ==
    /\ Coded
    /\ Len(call.compressed) >= 2
    /\ flatBlock(call.processed, 1) # flatBlock(call.processed, 2)

\* C22: every flattened block passed to compressBlock has exactly
\* blockSize * blockSize * 3 samples, in RGB and in YCbCr mode, blocks made
\* partly or wholly of padding included.
C22_BlockLength ==
    Tiled
    => /\ call.processed.shape[1] >= 1
       /\ \A k \in 1..call.processed.shape[1] :
             Len(flatBlock(call.processed, k))
               = options.blockSize * options.blockSize * 3

\* a block made wholly of padding was handed to the coder in YCbCr mode
C22_PaddingBlockConverted ==
    /\ Tiled
    /\ options.colorSpace = "YCbCr"
    /\ options.blockSize = 2
    /\ call.image.width = 3
    /\ call.image.height = 3
    /\ \E k \in 1..call.blocks.shape[1] :
          \A i \in 1..12 : call.blocks.data[(k - 1) * 12 + i] = 0

\* C23: for every sample x in 0..255 and every positive level L the value
\* quantizeBlock returns, floor(x / step) * step with step = 256 / L, lies
\* in [0, 256) and is not greater than x.
C23_QuantizedWithinSample ==
    probe.op \in {"quantized", "requantized"}
    => /\ probe.q[1] = 1
       /\ F32Less(probe.q, F32FromInt(256))
       /\ ~F32Less(Sample(probe.x), probe.q)

\* the sample 192 was quantized at level 28
C23_QuantizedAtLevel28 ==
    /\ probe.op = "quantized"
    /\ probe.x = 192
    /\ probe.level = 28

\* C24: compressBlock terminates for every finite block: with the table as
\* shipped no renormalization loop runs on without end, so every compress
\* call on a finite image eventually returns or fails.
C24_CallsSettle ==
    /\ [](~call.stuck /\ call.pc # "spinning")
    /\ (call.pc = "loading") ~> (call.pc \in {"returned", "failed"})

\* a call that coded blocks of 192 samples has returned
C24_LongBlocksReturned ==
    /\ call.pc = "returned"
    /\ SamplesPerBlock = 192
    /\ Len(call.result.compressed) >= 1

RECURSIVE CountsOf(_, _)
CountsOf(table, ks) ==
    IF ks = {} THEN 0
    ELSE LET k == CHOOSE x \in ks : TRUE
         IN  table[k] + CountsOf(table, ks \ {k})

\* C27: getProbability normalizes by the global total: for any table the
\* total is the sum of the counts of all recorded (context, value) pairs,
\* not only those of the queried context, the count is that of the exact
\* (context, value) key or 0 if absent, and the result is
\* low = count / (total + 1), high = (count + 1) / (total + 1).
C27_GlobalTotal ==
    probe.op = "asked"
    => LET key   == <<probe.context, probe.value>>
           count == IF key \in DOMAIN probe.table THEN probe.table[key] ELSE 0
           total == CountsOf(probe.table, DOMAIN probe.table)
       IN  /\ probe.p.low[1] * (total + 1) = count * probe.p.low[2]
           /\ probe.p.high[1] * (total + 1) = (count + 1) * probe.p.high[2]

\* a key was asked for in a table that also counts a key of another context
C27_AskedAmongOtherContexts ==
    /\ probe.op = "asked"
    /\ \E k \in DOMAIN probe.table :
          /\ k[1] # probe.context
          /\ probe.table[k] >= 1
    /\ <<probe.context, probe.value>> \in DOMAIN probe.table
    /\ probe.table[<<probe.context, probe.value>>] >= 1

\* the number of dispose() calls on the buffer b
TimesDisposed(b) ==
    Cardinality({i \in DOMAIN call.disposed : call.disposed[i] = b})

\* C28: within one compress call no buffer is released twice and none is
\* read after its release: in RGB mode the quantized volume, which is also
\* the processed one, is disposed exactly once; in YCbCr mode the quantized
\* and the transformed volume are disposed exactly once each; and every
\* disposal happens after block coding has finished reading the data.
C28_DisposedOnce ==
    /\ \A b \in call.allocated : TimesDisposed(b) <= 1
    /\ \A i \in DOMAIN call.disposed : call.disposed[i] \in call.allocated
    /\ call.pc \in {"loading", "coding", "coded"} => call.disposed = <<>>
    /\ call.pc = "returned"
         => /\ TimesDisposed("quantized") = 1
            /\ options.colorSpace = "RGB"
                 => /\ call.processedIs = "quantized"
                    /\ TimesDisposed("converted") = 0
            /\ options.colorSpace = "YCbCr"
                 => /\ call.processedIs = "converted"
                    /\ TimesDisposed("converted") = 1
            /\ \E i, j \in DOMAIN call.stages :
                  /\ i < j
                  /\ call.stages[i] = "code"
                  /\ call.stages[j] = "dispose"
                  /\ \A k \in DOMAIN call.stages :
                        call.stages[k] = "dispose" => k = j

\* an RGB call has returned after its cleanup
C28_RgbReturned ==
    /\ call.pc = "returned"
    /\ options.colorSpace = "RGB"
    /\ call.disposed # <<>>

\* what compress returns for the image when it is the only call the instance
\* ever runs: the table is the one the constructor made
resultAlone(img, opts) ==
    [compressed |-> compressBlocks(prepare(loadImage(img), opts).processed,
                                   <<>>).compressed,
     metadata   |-> metadataOf(img, opts)]

\* the call c has what it would have were it alone on the instance
AsAlone(c) ==
    /\ c.pc # "spinning"
    /\ c.pc \in {"coded", "returned"} =>
          c.compressed = resultAlone(c.image, options).compressed
    /\ c.pc = "returned" => c.result = resultAlone(c.image, options)

\* C29: whatever other calls the instance has completed before, and whatever
\* stretches of another call run between the awaits of this one, a call
\* comes back with the bit sequences and the metadata it returns when it is
\* the only call ever made
C29_ResultOfOwnImageOnly == AsAlone(call) /\ AsAlone(other)

\* both calls are suspended after their blocks were coded, on different
\* images, on an instance that has settled a call before
C29_TwoCallsInFlight ==
    /\ call.pc = "coded"
    /\ other.pc = "coded"
    /\ completed >= 1
    /\ call.image # other.image
    /\ Len(call.compressed) > 0

\* an ImageData of the given size whose colour samples are all zero
BlankImage(h, w) ==
    [width  |-> w,
     height |-> h,
     data   |-> [k \in 1..(w * h * 4) |-> IF (k - 1) % 4 = 3 THEN 255 ELSE 0]]

\* the other images of the width and height of img: the blank one and one
\* per seed
SameSize(img) ==
    ({BlankImage(img.height, img.width)}
     \cup {ImageOf(img.height, img.width, seed) : seed \in Seeds}) \ {img}

\* C30: under one configuration the bit sequences compress returns for an
\* image are those it returns for every other image of the same width and
\* height, at every quantization level and in both colour spaces: the
\* pixels have no influence on them
C30_SequencesIgnoreContent ==
    call.pc = "returned" =>
       \A img \in SameSize(call.image) :
          resultAlone(img, options).compressed = call.result.compressed

\* a call returned the sequences of several blocks of YCbCr samples, some
\* of them zero and some not
C30_NonZeroSamplesCoded ==
    /\ call.pc = "returned"
    /\ options.colorSpace = "YCbCr"
    /\ Len(call.compressed) > 1
    /\ \E i \in DOMAIN call.processed.data : call.processed.data[i] # F32Zero
    /\ \E i \in DOMAIN call.processed.data : call.processed.data[i] = F32Zero

=============================================================================
